---- MODULE Spec2Model ----
(***************************************************************************)
(* DataLoader (dataloader.ts): the batching and caching engine.            *)
(*                                                                         *)
(* One loader instance.  Promises are numbered; a promise is pending,      *)
(* resolved with a value or rejected with an error.  Every load call is    *)
(* logged in `loads` with the promise it returned.                         *)
(***************************************************************************)
EXTENDS Integers, Sequences, FiniteSets

\* ---------------------------------------------------------------- bounds
\* load calls (those loadMany makes included)
MaxLoads == 2
\* clear, clearAll and prime calls that change the cache
MaxEdits == 1
\* backend calls that go wrong as a whole: the call throws, returns no
\* promise, its promise is rejected, its response is malformed or holds a
\* value JSON.stringify throws on
MaxFaults == 1
\* promise continuations and timers the running code queues
MaxJobs == 3

\* -------------------------------------------------------------- universe
Keys == {"a", "b"}

\* a key that is null or undefined
Null == "null"

\* maxBatchSize when options.maxBatchSize is undefined
Infinity == 999

\* options.maxBatchSize = undefined: a value that is none of the numbers
Undefined == 998

\* what the batch function may hand back for one key: a value, an Error
\* instance, or a value JSON.stringify throws on (a BigInt, a cycle)
Items == {"v1", "e1", "big"}

Errors == {"e1", "pe", "TypeError", "backendError", "stringifyError"}

isError(value) == value \in Errors

\* JSON.stringify(value) throws
stringifyThrows(value) == value = "big"

VARIABLES
  options,    \* the constructor's options
  _batch,     \* loader._batch: 0 is null, else an index of batches
  batches,    \* every Batch object created so far
  _cacheMap,  \* loader._cacheMap: cache key -> promise (0: no entry)
  promises,   \* the promises load creates on a miss and prime creates
  hits,       \* the promises load returns on a cache hit
  loads,      \* log: one entry per load call
  many,       \* log: one entry per loadMany call, the load calls it made
  tickLog,    \* log: the API calls since the last dispatch callback ran
  edits,      \* number of clear, clearAll and prime calls that changed the cache
  faults,     \* number of backend calls that went wrong as a whole
  limit,      \* the number of load calls this run may make
  loop,       \* the job queues of the runtime and what it is running
  call,       \* the last load or loadMany call and how it ended
  made,       \* a constructor call: its arguments and what came of it
  tiny        \* the TinyDataLoader instance given the same calls

vars == <<options, _batch, batches, _cacheMap, promises, hits, loads, many,
          tickLog, edits, faults, limit, loop, call, made, tiny>>

\* ------------------------------------------------------------ the options
\* new DataLoader(batchLoadFn) and the options left undefined; an undefined
\* batchScheduleFn is written as the function that takes its place
DefaultOptions ==
  [batch |-> TRUE, maxBatchSize |-> Undefined,
   batchScheduleFn |-> "enqueuePostPromiseJob", cache |-> TRUE,
   cacheKeyFn |-> "undefined", cacheMap |-> "undefined"]

OptionSet ==
  LET default == DefaultOptions
  IN { default,
       [default EXCEPT !.cache = FALSE],
       [default EXCEPT !.maxBatchSize = 2],
       [default EXCEPT !.batch = FALSE],
       [default EXCEPT !.batchScheduleFn = "immediate"] }

\* getValidMaxBatchSize that does not look at options.batch
getValidMaxBatchSizeIgnoresBatch(o) ==
  IF o.maxBatchSize = Undefined THEN Infinity ELSE o.maxBatchSize

getValidMaxBatchSize(o) ==
  IF ~o.batch THEN 1
  ELSE IF o.maxBatchSize = Undefined THEN Infinity
  ELSE o.maxBatchSize

\* getValidCacheMap that makes a Map whatever options.cache
getValidCacheMapAlways(o) == TRUE

\* TRUE: a Map or the store of options.cacheMap; FALSE: null
getValidCacheMap(o) == o.cache /\ o.cacheMap # "null"

_maxBatchSize == getValidMaxBatchSize(options)

\* getValidCacheKeyFn that returns the identity whatever options.cacheKeyFn
_cacheKeyFnIdentity(key) == key

\* the function getValidCacheKeyFn returns: the identity, or the function of
\* options.cacheKeyFn, here one that gives every key the cache key "k"
_cacheKeyFn(key) == IF options.cacheKeyFn = "undefined" THEN key ELSE "k"

CacheKeys == { _cacheKeyFn(k) : k \in Keys }

\* ---------------------------------------------------------- loader state
\* The mutable state as one record, so that the handlers compose.
Loader ==
  [batch |-> _batch, batches |-> batches, cacheMap |-> _cacheMap,
   promises |-> promises, hits |-> hits, loads |-> loads,
   tickLog |-> tickLog]

Pending == [st |-> "pending", val |-> "none"]
Resolved(v) == [st |-> "resolved", val |-> v]
Rejected(e) == [st |-> "rejected", val |-> e]

NoResponse == [arrayLike |-> FALSE, elems |-> <<>>]

newBatch ==
  [hasDispatched |-> FALSE, keys |-> <<>>, callbacks |-> <<>>,
   cacheHits |-> <<>>, phase |-> "scheduled", values |-> NoResponse,
   error |-> "none", sent |-> <<>>, hitsRun |-> 0]

\* resolve / reject of a promise: the first call settles it, later ones are
\* ignored
settle(L, p, outcome) ==
  IF L.promises[p].st = "pending"
  THEN [L EXCEPT !.promises[p] = outcome]
  ELSE L

\* resolveCacheHits that runs nothing
resolveCacheHitsNothing(L, b) == L

\* resolveCacheHits: run every queued notification of the batch
resolveCacheHits(L, b) ==
  [L EXCEPT !.hits =
     [h \in DOMAIN L.hits |->
        IF \E i \in DOMAIN L.batches[b].cacheHits : L.batches[b].cacheHits[i] = h
        THEN [L.hits[h] EXCEPT !.run = TRUE]
        ELSE L.hits[h]]]

\* cacheMap.get never finds an entry
cacheMapGetNothing(L, cacheKey) == 0

\* cacheMap.get(cacheKey): 0 is undefined
cacheMapGet(L, cacheKey) == L.cacheMap[cacheKey]

\* clear that leaves the entry in place
clearNothing(L, key) == L

\* loader.clear(key)
clear(L, key) ==
  IF getValidCacheMap(options)
  THEN [L EXCEPT !.cacheMap[_cacheKeyFn(key)] = 0]
  ELSE L

\* loader.clearAll()
clearAll(L) ==
  IF getValidCacheMap(options)
  THEN [L EXCEPT !.cacheMap = [c \in CacheKeys |-> 0]]
  ELSE L

\* failedDispatch that rejects the callbacks and leaves the cache alone
RECURSIVE failedLoopKeepsCache(_, _, _, _)
failedLoopKeepsCache(L, b, error, i) ==
  IF i > Len(L.batches[b].keys) THEN L
  ELSE failedLoopKeepsCache(settle(L, L.batches[b].callbacks[i], Rejected(error)),
                            b, error, i + 1)

\* failedDispatch that rejects every pending promise of the loader
failedLoopRejectsAll(L, b, error, i) ==
  [L EXCEPT !.promises = [p \in DOMAIN L.promises |->
                            IF L.promises[p].st = "pending" THEN Rejected(error)
                            ELSE L.promises[p]]]

\* the loop of failedDispatch, from position i
RECURSIVE failedLoop(_, _, _, _)
failedLoop(L, b, error, i) ==
  IF i > Len(L.batches[b].keys) THEN L
  ELSE failedLoop(settle(clear(L, L.batches[b].keys[i]),
                         L.batches[b].callbacks[i], Rejected(error)),
                  b, error, i + 1)

failedDispatch(L, b, error) ==
  [failedLoop(resolveCacheHits(L, b), b, error, 1)
     EXCEPT !.batches[b].phase = "failed", !.batches[b].error = error,
            !.tickLog = Append(@, [op |-> "failedDispatch", key |-> "none",
                                   hit |-> FALSE, promise |-> 0])]

\* dispatchBatch that calls the batch function with no keys too
dispatchBatchCallsAlways(L, b, ret) ==
  [L EXCEPT !.batches[b].hasDispatched = TRUE,
            !.batches[b].sent = L.batches[b].keys,
            !.batches[b].hitsRun = Len(L.batches[b].cacheHits),
            !.batches[b].phase = "inflight"]

\* dispatchBatch up to the call of the batch function; ret is what the call
\* does: "promise", "notPromise" or "throws"
dispatchBatch(L, b, ret) ==
  LET L1 == [L EXCEPT !.batches[b].hasDispatched = TRUE,
                      !.batches[b].sent = L.batches[b].keys,
                      !.batches[b].hitsRun = Len(L.batches[b].cacheHits)]
  IN IF Len(L1.batches[b].keys) = 0
     THEN [resolveCacheHits(L1, b) EXCEPT !.batches[b].phase = "noCall"]
     ELSE IF ret = "throws"
     THEN [L1 EXCEPT !.batches[b].phase = "threw"]
     ELSE IF ret = "notPromise"
     THEN failedDispatch(L1, b, "TypeError")
     ELSE [L1 EXCEPT !.batches[b].phase = "inflight"]

\* the loop of the .then callback over batch.callbacks, from position i
RECURSIVE valuesLoop(_, _, _, _)
valuesLoop(L, b, values, i) ==
  IF i > Len(L.batches[b].callbacks)
  THEN [L EXCEPT !.batches[b].phase = "done"]
  ELSE LET value == values[i]
       IN IF isError(value)
          THEN valuesLoop(settle(L, L.batches[b].callbacks[i], Rejected(value)),
                          b, values, i + 1)
          ELSE IF stringifyThrows(value)
          THEN [L EXCEPT !.batches[b].phase = "catching",
                         !.batches[b].error = "stringifyError"]
          ELSE valuesLoop(settle(L, L.batches[b].callbacks[i], Resolved(value)),
                          b, values, i + 1)

\* the .then callback of dispatchBatch
thenCallback(L, b, response) ==
  IF ~response.arrayLike \/ Len(response.elems) # Len(L.batches[b].keys)
  THEN [L EXCEPT !.batches[b].phase = "catching",
                 !.batches[b].error = "TypeError"]
  ELSE valuesLoop(resolveCacheHits([L EXCEPT !.batches[b].values = response], b),
                  b, response.elems, 1)

\* opening a batch: it becomes loader._batch and its dispatch is scheduled; a
\* scheduler that runs the callback at once dispatches it here, still empty
openBatch(L) ==
  LET n == Len(L.batches) + 1
      L1 == [L EXCEPT !.batches = Append(@, newBatch), !.batch = n]
  IN IF options.batchScheduleFn = "immediate"
     THEN dispatchBatch(L1, n, "promise")
     ELSE L1

\* getCurrentBatch that reuses a batch already dispatched
getCurrentBatchReusesDispatched(L) ==
  IF /\ L.batch # 0
     /\ Len(L.batches[L.batch].keys) < _maxBatchSize
     /\ Len(L.batches[L.batch].cacheHits) < _maxBatchSize
  THEN L
  ELSE openBatch(L)

\* getCurrentBatch that takes one key more than the maximum
getCurrentBatchOffByOne(L) ==
  IF /\ L.batch # 0
     /\ ~L.batches[L.batch].hasDispatched
     /\ Len(L.batches[L.batch].keys) <= _maxBatchSize
     /\ Len(L.batches[L.batch].cacheHits) < _maxBatchSize
  THEN L
  ELSE openBatch(L)

\* getCurrentBatch: the loader with the batch to use as L.batch
getCurrentBatch(L) ==
  IF /\ L.batch # 0
     /\ ~L.batches[L.batch].hasDispatched
     /\ Len(L.batches[L.batch].keys) < _maxBatchSize
     /\ Len(L.batches[L.batch].cacheHits) < _maxBatchSize
  THEN L
  ELSE openBatch(L)

\* load(key) throws its TypeError
loadThrows(key) == key = Null

\* load(key); a call that throws leaves the loader as it found it
load(L, key) ==
  LET L1 == getCurrentBatch(L)
      b == L1.batch
      cacheKey == _cacheKeyFn(key)
      cachedPromise == IF getValidCacheMap(options) THEN cacheMapGet(L1, cacheKey) ELSE 0
  IN IF loadThrows(key) THEN L
     ELSE IF cachedPromise # 0
     THEN LET h == Len(L1.hits) + 1
          IN [L1 EXCEPT !.hits = Append(@, [promise |-> cachedPromise, run |-> FALSE]),
                        !.batches[b].cacheHits = Append(@, h),
                        !.loads = Append(@, [key |-> key, hit |-> TRUE, ref |-> h]),
                        !.tickLog = Append(@, [op |-> "load", key |-> key, hit |-> TRUE,
                                               promise |-> cachedPromise])]
     ELSE LET p == Len(L1.promises) + 1
          IN [L1 EXCEPT !.batches[b].keys = Append(@, key),
                        !.batches[b].callbacks = Append(@, p),
                        !.promises = Append(@, Pending),
                        !.cacheMap = IF getValidCacheMap(options)
                                     THEN [@ EXCEPT ![cacheKey] = p] ELSE @,
                        !.loads = Append(@, [key |-> key, hit |-> FALSE, ref |-> p]),
                        !.tickLog = Append(@, [op |-> "load", key |-> key, hit |-> FALSE,
                                               promise |-> p])]

\* the loop of loadMany from position i: a load that throws ends it
RECURSIVE loadEach(_, _, _)
loadEach(L, keys, i) ==
  IF i > Len(keys) \/ loadThrows(keys[i]) THEN L
  ELSE loadEach(load(L, keys[i]), keys, i + 1)

\* loadMany without the .catch on each load
catchErrorMissing(outcome) == outcome

\* .catch((error) => error) on the promise of one load
catchError(outcome) ==
  IF outcome.st = "rejected" THEN Resolved(outcome.val) ELSE outcome

\* Promise.all over the outcomes of its elements
promiseAll(outcomes) ==
  IF \E i \in DOMAIN outcomes : outcomes[i].st = "rejected"
  THEN [st |-> "rejected", vals |-> <<>>]
  ELSE IF \A i \in DOMAIN outcomes : outcomes[i].st = "resolved"
  THEN [st |-> "resolved", vals |-> [i \in DOMAIN outcomes |-> outcomes[i].val]]
  ELSE [st |-> "pending", vals |-> <<>>]

\* prime that replaces an entry
primeOverwrites(L, key, value) ==
  IF getValidCacheMap(options)
  THEN [L EXCEPT !.promises = Append(@, IF isError(value) THEN Rejected(value)
                                        ELSE Resolved(value)),
                 !.cacheMap[_cacheKeyFn(key)] = Len(L.promises) + 1]
  ELSE L

prime(L, key, value) ==
  IF getValidCacheMap(options) /\ cacheMapGet(L, _cacheKeyFn(key)) = 0
  THEN [L EXCEPT !.promises = Append(@, IF isError(value) THEN Rejected(value)
                                        ELSE Resolved(value)),
                 !.cacheMap[_cacheKeyFn(key)] = Len(L.promises) + 1]
  ELSE L

\* ---------------------------------------------------------------- actions
Store(L) ==
  /\ _batch' = L.batch
  /\ batches' = L.batches
  /\ _cacheMap' = L.cacheMap
  /\ promises' = L.promises
  /\ hits' = L.hits
  /\ loads' = L.loads
  /\ tickLog' = L.tickLog

\* the runtime when the first frame starts: nothing queued
newLoop ==
  [phase |-> "frame", microQ |-> <<>>, tickQ |-> <<>>, macroQ |-> 0,
   draining |-> FALSE, frame |-> 1, jobs |-> 0, where |-> <<>>]

\* no load or loadMany call made yet
noCall ==
  [op |-> "none", usage |-> FALSE, threw |-> FALSE, returned |-> FALSE,
   same |-> TRUE]

\* no constructor call under way
notMade == [step |-> "none"]

\* no TinyDataLoader constructed
noTiny == [step |-> "none"]

\* a loader just constructed with options of the set O
FreshWith(n, O) ==
  /\ limit = n
  /\ loop = newLoop
  /\ options \in O
  /\ _batch = 0
  /\ batches = <<>>
  /\ _cacheMap = [c \in CacheKeys |-> 0]
  /\ promises = <<>>
  /\ hits = <<>>
  /\ loads = <<>>
  /\ many = <<>>
  /\ tickLog = <<>>
  /\ edits = 0
  /\ faults = 0

Fresh(n) == FreshWith(n, OptionSet)

InitWith(n) ==
  /\ Fresh(n)
  /\ call = noCall
  /\ made = notMade
  /\ tiny = noTiny

Init == InitWith(MaxLoads)

\* one load call more
InitDeep == InitWith(MaxLoads + 1)

\* a loader constructed with caching enabled
InitCached == Init /\ options.cache

Load(key) ==
  /\ Len(loads) < limit
  /\ Store(load(Loader, key))
  /\ UNCHANGED <<options, many, edits, faults, limit, loop, call, made, tiny>>

ManyKeys == {<<"a", "b">>, <<"b", "b">>}

LoadMany(keys) ==
  /\ Len(loads) + Len(keys) <= limit
  /\ Store(loadEach(Loader, keys, 1))
  /\ many' = Append(many, [first |-> Len(loads) + 1, n |-> Len(keys)])
  /\ UNCHANGED <<options, edits, faults, limit, loop, call, made, tiny>>

\* a call that edits the cache: counted when it changes it
Edit(L) ==
  /\ edits < MaxEdits
  /\ Store(IF L = Loader THEN L
           ELSE [L EXCEPT !.tickLog = Append(@, [op |-> "edit", key |-> "none",
                                                 hit |-> FALSE, promise |-> 0])])
  /\ edits' = IF L = Loader THEN edits ELSE edits + 1
  /\ UNCHANGED <<options, many, faults, limit, loop, call, made, tiny>>

Clear(key) == Edit(clear(Loader, key))

ClearAll == Edit(clearAll(Loader))

Prime(key, value) == Edit(prime(Loader, key, value))

\* the job enqueuePostPromiseJob queued runs: jobs run in the order queued
Dispatch(b, ret) ==
  /\ b \in DOMAIN batches
  /\ batches[b].phase = "scheduled"
  /\ \A o \in DOMAIN batches : o < b => batches[o].phase # "scheduled"
  /\ faults' = IF ret = "promise" \/ Len(batches[b].keys) = 0 THEN faults ELSE faults + 1
  /\ faults' <= MaxFaults
  /\ Store(dispatchBatch([Loader EXCEPT !.tickLog = <<>>], b, ret))
  /\ UNCHANGED <<options, many, edits, limit, loop, call, made, tiny>>

Responses(n) ==
  { [arrayLike |-> TRUE, elems |-> e] : e \in [1..n -> Items] }
    \cup { [arrayLike |-> TRUE, elems |-> [i \in 1..(n - 1) |-> "v1"]],
           [arrayLike |-> TRUE, elems |-> [i \in 1..(n + 1) |-> "v1"]],
           NoResponse }

\* the promise the batch function returned is fulfilled
BatchResolved(b, response) ==
  /\ b \in DOMAIN batches
  /\ batches[b].phase = "inflight"
  /\ LET L2 == thenCallback(Loader, b, response)
     IN /\ faults' = IF L2.batches[b].phase = "done" THEN faults ELSE faults + 1
        /\ faults' <= MaxFaults
        /\ Store(L2)
  /\ UNCHANGED <<options, many, edits, limit, loop, call, made, tiny>>

\* the promise the batch function returned is rejected: the rejection passes
\* the .then and the .catch callback runs
BatchRejected(b) ==
  /\ b \in DOMAIN batches
  /\ batches[b].phase = "inflight"
  /\ Store(failedDispatch(Loader, b, "backendError"))
  /\ faults < MaxFaults
  /\ faults' = faults + 1
  /\ UNCHANGED <<options, many, edits, limit, loop, call, made, tiny>>

\* the .catch callback of dispatchBatch
CatchCallback(b) ==
  /\ b \in DOMAIN batches
  /\ batches[b].phase = "catching"
  /\ Store(failedDispatch(Loader, b, batches[b].error))
  /\ UNCHANGED <<options, many, edits, faults, limit, loop, call, made, tiny>>

Next ==
  \/ \E key \in Keys : Load(key)
  \/ \E keys \in ManyKeys : LoadMany(keys)
  \/ Clear("a")
  \/ ClearAll
  \/ \E value \in {"pv", "pe"} : Prime("a", value)
  \/ \E b \in DOMAIN batches, ret \in {"promise", "notPromise", "throws"} : Dispatch(b, ret)
  \/ \E b \in DOMAIN batches : \E response \in Responses(Len(batches[b].keys)) : BatchResolved(b, response)
  \/ \E b \in DOMAIN batches : BatchRejected(b)
  \/ \E b \in DOMAIN batches : CatchCallback(b)

Spec == Init /\ [][Next]_vars

SpecDeep == InitDeep /\ [][Next]_vars

SpecCached == InitCached /\ [][Next]_vars

\* options.cacheKeyFn is a function under which the keys share a cache key
KeyFnOptions ==
  { [DefaultOptions EXCEPT !.cacheKeyFn = "sameKey"],
    [DefaultOptions EXCEPT !.cacheKeyFn = "sameKey", !.maxBatchSize = 2] }

InitKeyFn ==
  /\ FreshWith(MaxLoads, KeyFnOptions)
  /\ call = noCall
  /\ made = notMade
  /\ tiny = noTiny

SpecKeyFn == InitKeyFn /\ [][Next]_vars

\* ------------------------------------------------------------ usage errors
\* What a caller may pass to loadMany as keys: an array, an object with a
\* length and indexed elements, an array with holes at its end, an object
\* without a length, a string, a number, null, undefined.
KeysArgs ==
  { [kind |-> "array", elems |-> e] :
      e \in {<<>>, <<"a">>, <<"a", "b">>, <<Null>>, <<"a", Null>>, <<Null, "a">>} }
  \cup { [kind |-> "arrayLike", elems |-> <<"b">>] }
  \cup { [kind |-> k, elems |-> <<>>] :
           k \in {"sparse", "object", "string", "number", "null", "undefined"} }

\* typeof x
typeOf(x) ==
  IF x.kind \in {"array", "arrayLike", "sparse", "object", "null"} THEN "object"
  ELSE x.kind

\* typeof x.length === "number"; reading a property of null or undefined
\* is not reached
hasLength(x) == x.kind \in {"array", "arrayLike", "sparse", "string"}

\* x.length where it is a number
lengthOf(x) == IF x.kind \in {"sparse", "string"} THEN 2 ELSE Len(x.elems)

\* Object.prototype.hasOwnProperty.call(x, x.length - 1)
hasLast(x) == x.kind # "sparse"

\* isArrayLike that accepts everything
isArrayLikeAlways(x) == TRUE

isArrayLike(x) ==
  /\ typeOf(x) = "object"
  /\ x.kind # "null"
  /\ hasLength(x)
  /\ (lengthOf(x) = 0 \/ (lengthOf(x) > 0 /\ hasLast(x)))

\* the position of the first key of keys load throws on, 0 if none
RECURSIVE firstThrow(_, _)
firstThrow(keys, i) ==
  IF i > Len(keys) THEN 0
  ELSE IF loadThrows(keys[i]) THEN i
  ELSE firstThrow(keys, i + 1)

\* the caller calls loader.load(key) with any key
LoadKey(key) ==
  /\ Len(loads) < limit
  /\ Store(load(Loader, key))
  /\ call' = [op |-> "load", usage |-> key = Null, threw |-> loadThrows(key),
              returned |-> ~loadThrows(key),
              same |-> load(Loader, key) = Loader]
  /\ UNCHANGED <<options, many, edits, faults, limit, loop, made, tiny>>

\* the caller calls loader.loadMany(x) with any x
LoadManyOf(x) ==
  /\ Len(loads) + Len(x.elems) <= limit
  /\ Len(many) < MaxLoads
  /\ LET ok == isArrayLike(x)
         L2 == IF ok THEN loadEach(Loader, x.elems, 1) ELSE Loader
         threw == ~ok \/ firstThrow(x.elems, 1) # 0
     IN /\ Store(L2)
        /\ many' = IF threw THEN many
                   ELSE Append(many, [first |-> Len(loads) + 1, n |-> Len(x.elems)])
        /\ call' = [op |-> "loadMany",
                    usage |-> \/ x.kind \notin {"array", "arrayLike"}
                              \/ \E i \in DOMAIN x.elems : x.elems[i] = Null,
                    threw |-> threw, returned |-> ~threw, same |-> L2 = Loader]
  /\ UNCHANGED <<options, edits, faults, limit, loop, made, tiny>>

NextUsage ==
  \/ \E key \in Keys \cup {Null} : LoadKey(key)
  \/ \E x \in KeysArgs : LoadManyOf(x)
  \/ \E b \in DOMAIN batches : Dispatch(b, "promise")
  \/ \E b \in DOMAIN batches : BatchRejected(b)

SpecUsage == Init /\ [][NextUsage]_vars

\* ------------------------------------------------------------ construction
\* the values of options.maxBatchSize that are numbers
Numbers == -1..2

\* options.maxBatchSize = "2": a value that is not a number
AString == 997

\* what a caller may pass as options
RawOptions ==
  [batch : BOOLEAN,
   maxBatchSize : Numbers \cup {Undefined, AString},
   batchScheduleFn : {"enqueuePostPromiseJob", "immediate", "notFunction"},
   cache : BOOLEAN,
   cacheKeyFn : {"undefined", "sameKey", "notFunction"},
   cacheMap : {"undefined", "null", "Map", "noGet", "noSet", "noDelete", "noClear"}]

\* getValidBatchScheduleFn throws its TypeError
getValidBatchScheduleFnThrows(o) == o.batchScheduleFn = "notFunction"

\* getValidMaxBatchSize throws its TypeError
getValidMaxBatchSizeThrows(o) ==
  /\ o.batch
  /\ o.maxBatchSize # Undefined
  /\ (o.maxBatchSize \notin Numbers \/ o.maxBatchSize < 1)

\* getValidCacheKeyFn throws its TypeError
getValidCacheKeyFnThrows(o) == o.cacheKeyFn = "notFunction"

\* the names of cacheFunctions the store has no function for
missingFunctions(cacheMap) ==
  IF cacheMap = "noGet" THEN {"get"}
  ELSE IF cacheMap = "noSet" THEN {"set"}
  ELSE IF cacheMap = "noDelete" THEN {"delete"}
  ELSE IF cacheMap = "noClear" THEN {"clear"}
  ELSE {}

\* getValidCacheMap throws its TypeError
getValidCacheMapThrows(o) ==
  /\ o.cache
  /\ o.cacheMap # "undefined"
  /\ o.cacheMap # "null"
  /\ missingFunctions(o.cacheMap) # {}

\* new DataLoader(batchLoadFn, options)
constructor(batchLoadFn, o) ==
  IF \/ batchLoadFn # "function"
     \/ getValidBatchScheduleFnThrows(o)
     \/ getValidMaxBatchSizeThrows(o)
     \/ getValidCacheKeyFnThrows(o)
     \/ getValidCacheMapThrows(o)
  THEN [step |-> "threw", batchLoadFn |-> batchLoadFn, options |-> o]
  ELSE [step |-> "made", batchLoadFn |-> batchLoadFn, options |-> o]

InitConstruct ==
  /\ Fresh(MaxLoads)
  /\ options = DefaultOptions
  /\ call = noCall
  /\ tiny = noTiny
  /\ made \in [step : {"args"}, batchLoadFn : {"function", "notFunction"},
               options : RawOptions]

\* the caller's new DataLoader(batchLoadFn, options) runs
Construct ==
  /\ made.step = "args"
  /\ made' = constructor(made.batchLoadFn, made.options)
  /\ UNCHANGED <<options, _batch, batches, _cacheMap, promises, hits, loads, many,
                 tickLog, edits, faults, limit, loop, call, tiny>>

NextConstruct == Construct

SpecConstruct == InitConstruct /\ [][NextConstruct]_vars

\* --------------------------------------------------------- TinyDataLoader
\* tiny.ts.  The instance is the record `tiny`: _batchLoader, _taskQueue.tasks
\* and .cacheHits, _cacheMap; the promises load made and the promises it
\* returned on a cache hit; the jobs enqueuePostPromiseJob has queued and the
\* calls of the batch loader; the log of the load and loadMany calls.

\* the batch loaders: one value or Error per key, in the order of the keys
BatchLoaders == [Keys -> {"v1", "e1"}]

\* new TinyDataLoader(batchLoader) that also queues a run of executeTaskQueue
TinyDataLoaderFlushes(batchLoader) ==
  [step |-> "made", _batchLoader |-> batchLoader, tasks |-> <<>>,
   cacheHits |-> <<>>, _cacheMap |-> [k \in Keys |-> 0], promises |-> <<>>,
   hits |-> <<>>, jobs |-> 1, calls |-> <<>>, loads |-> <<>>, many |-> <<>>]

\* new TinyDataLoader(batchLoader)
TinyDataLoader(batchLoader) ==
  [step |-> "made", _batchLoader |-> batchLoader, tasks |-> <<>>,
   cacheHits |-> <<>>, _cacheMap |-> [k \in Keys |-> 0], promises |-> <<>>,
   hits |-> <<>>, jobs |-> 0, calls |-> <<>>, loads |-> <<>>, many |-> <<>>]

\* resolveCacheHits(queue) of tiny.ts: every notification of the list runs;
\* the list is never emptied
tinyResolveCacheHits(t) ==
  [t EXCEPT !.hits =
     [h \in DOMAIN t.hits |->
        IF \E i \in DOMAIN t.cacheHits : t.cacheHits[i] = h
        THEN [t.hits[h] EXCEPT !.run = TRUE]
        ELSE t.hits[h]]]

\* enqueuePostPromiseJob(() => executeTaskQueue(this)) of tiny.ts
tinyEnqueuePostPromiseJob(t) == [t EXCEPT !.jobs = @ + 1]

\* TinyDataLoader.load(key)
tinyLoad(t, key) ==
  LET shouldDispatch == Len(t.tasks) = 0
      t1 == IF shouldDispatch
            THEN tinyEnqueuePostPromiseJob(tinyResolveCacheHits(t))
            ELSE t
      cachedPromise == t1._cacheMap[key]
  IN IF cachedPromise # 0
     THEN LET h == Len(t1.hits) + 1
          IN [t1 EXCEPT !.hits = Append(@, [promise |-> cachedPromise, run |-> FALSE]),
                        !.cacheHits = Append(@, h),
                        !.loads = Append(@, [key |-> key, hit |-> TRUE, ref |-> h])]
     ELSE LET p == Len(t1.promises) + 1
          IN [t1 EXCEPT !.promises = Append(@, Pending),
                        !.tasks = Append(@, [key |-> key, promise |-> p]),
                        !._cacheMap[key] = p,
                        !.loads = Append(@, [key |-> key, hit |-> FALSE, ref |-> p])]

\* keys.map((key) => this.load(key)) of TinyDataLoader.loadMany, from i
RECURSIVE tinyLoadEach(_, _, _)
tinyLoadEach(t, keys, i) ==
  IF i > Len(keys) THEN t ELSE tinyLoadEach(tinyLoad(t, keys[i]), keys, i + 1)

\* TinyDataLoader.loadMany(keys)
tinyLoadMany(t, keys) ==
  [tinyLoadEach(t, keys, 1)
     EXCEPT !.many = Append(@, [first |-> Len(t.loads) + 1, n |-> Len(keys)])]

\* executeTaskQueue(loader) up to the call of the batch loader
executeTaskQueue(t) ==
  [t EXCEPT !.tasks = <<>>,
            !.jobs = @ - 1,
            !.calls = Append(@, [keys |-> [i \in DOMAIN t.tasks |-> t.tasks[i].key],
                                 queue |-> [i \in DOMAIN t.tasks |-> t.tasks[i].promise],
                                 phase |-> "inflight"])]

\* every job enqueuePostPromiseJob has queued runs, in order
RECURSIVE tinyJobs(_)
tinyJobs(t) == IF t.jobs = 0 THEN t ELSE tinyJobs(executeTaskQueue(t))

\* queue.forEach of the .then callback of executeTaskQueue, from position i
RECURSIVE tinyForEach(_, _, _, _)
tinyForEach(t, c, values, i) ==
  IF i > Len(t.calls[c].queue) THEN [t EXCEPT !.calls[c].phase = "done"]
  ELSE LET p == t.calls[c].queue[i]
           outcome == IF isError(values[i]) THEN Rejected(values[i])
                      ELSE Resolved(values[i])
       IN tinyForEach(IF t.promises[p].st = "pending"
                      THEN [t EXCEPT !.promises[p] = outcome] ELSE t,
                      c, values, i + 1)

\* the .then callback of executeTaskQueue
tinyThen(t, c, values) == tinyForEach(tinyResolveCacheHits(t), c, values, 1)

\* what the batch loader answers for keys
backend(keys) == [i \in DOMAIN keys |-> tiny._batchLoader[keys[i]]]

\* both loaders are given the same calls; the DataLoader has default options
InitTiny ==
  /\ Fresh(MaxLoads + 1)
  /\ options = DefaultOptions
  /\ call = noCall
  /\ made = notMade
  /\ tiny = noTiny

TinyConstruct(batchLoader) ==
  /\ tiny.step = "none"
  /\ tiny' = TinyDataLoader(batchLoader)
  /\ made' = [step |-> "tiny", batchLoader |-> batchLoader]
  /\ UNCHANGED <<options, _batch, batches, _cacheMap, promises, hits, loads, many,
                 tickLog, edits, faults, limit, loop, call>>

TinyLoad(key) ==
  /\ tiny.step = "made"
  /\ Len(loads) < limit
  /\ Store(load(Loader, key))
  /\ tiny' = tinyLoad(tiny, key)
  /\ UNCHANGED <<options, many, edits, faults, limit, loop, call, made>>

TinyLoadMany(keys) ==
  /\ tiny.step = "made"
  /\ Len(loads) + Len(keys) <= limit
  /\ Store(loadEach(Loader, keys, 1))
  /\ many' = Append(many, [first |-> Len(loads) + 1, n |-> Len(keys)])
  /\ tiny' = tinyLoadMany(tiny, keys)
  /\ UNCHANGED <<options, edits, faults, limit, loop, call, made>>

\* the dispatch of every batch of L that waits for it, from batch b on
RECURSIVE dispatchScheduled(_, _)
dispatchScheduled(L, b) ==
  IF b > Len(L.batches) THEN L
  ELSE dispatchScheduled(IF L.batches[b].phase = "scheduled"
                         THEN dispatchBatch(L, b, "promise") ELSE L,
                         b + 1)

\* the synchronous code and the promise jobs of the tick are over: the jobs
\* enqueuePostPromiseJob queued run
TinyTick ==
  /\ tiny.step = "made"
  /\ tiny.jobs > 0 \/ \E b \in DOMAIN batches : batches[b].phase = "scheduled"
  /\ Store(dispatchScheduled([Loader EXCEPT !.tickLog = <<>>], 1))
  /\ tiny' = tinyJobs(tiny)
  /\ UNCHANGED <<options, many, edits, faults, limit, loop, call, made>>

\* the promise of a call of the TinyDataLoader's batch loader is fulfilled
TinyThen(c) ==
  /\ tiny.step = "made"
  /\ c \in DOMAIN tiny.calls
  /\ tiny.calls[c].phase = "inflight"
  /\ tiny' = tinyThen(tiny, c, backend(tiny.calls[c].keys))
  /\ UNCHANGED <<options, _batch, batches, _cacheMap, promises, hits, loads, many,
                 tickLog, edits, faults, limit, loop, call, made>>

\* the promise of a call of the DataLoader's batch function is fulfilled
LoaderThen(b) ==
  /\ tiny.step = "made"
  /\ BatchResolved(b, [arrayLike |-> TRUE, elems |-> backend(batches[b].keys)])

\* the calls of the batch loader the TinyDataLoader has made
TinyCalls == IF tiny.step = "made" THEN DOMAIN tiny.calls ELSE {}

NextTiny ==
  \/ \E batchLoader \in BatchLoaders : TinyConstruct(batchLoader)
  \/ \E key \in Keys : TinyLoad(key)
  \/ \E keys \in ManyKeys : TinyLoadMany(keys)
  \/ TinyTick
  \/ \E c \in TinyCalls : TinyThen(c)
  \/ \E b \in DOMAIN batches : LoaderThen(b)

SpecTiny == InitTiny /\ [][NextTiny]_vars

\* ------------------------------------------------- the default scheduler
\* The runtime of enqueuePostPromiseJob (Node.js): a frame of synchronous
\* code runs to its end; then the process.nextTick queue is emptied, then the
\* promise job queue is emptied, jobs queued meanwhile included, and so on
\* until both are empty; then the next timer callback runs as a new frame.

\* a scheduler that calls process.nextTick(fn) with no promise job before it
enqueueNextTick(lp, b) == [lp EXCEPT !.tickQ = Append(@, b)]

\* enqueuePostPromiseJob(fn): resolvedPromise.then(() => process.nextTick(fn))
enqueuePostPromiseJob(lp, b) ==
  [lp EXCEPT !.microQ = Append(@, [job |-> "nextTick", batch |-> b])]

\* the running code calls load(key): a batch it opens is scheduled
issueLoad(lp, key, by) ==
  LET L2 == load(Loader, key)
      lp1 == IF Len(L2.batches) > Len(batches)
             THEN enqueuePostPromiseJob(lp, L2.batch) ELSE lp
  IN [lp1 EXCEPT !.where = Append(@, [frame |-> lp.frame, batch |-> L2.batch,
                                      by |-> by])]

\* the promise job queue after its head ran
afterJob(lp) ==
  [lp EXCEPT !.microQ = Tail(@), !.draining = Len(lp.microQ) > 1]

InitTick ==
  /\ InitWith(MaxLoads + 1)
  /\ options.batch /\ options.maxBatchSize = Undefined
  /\ options.batchScheduleFn = "enqueuePostPromiseJob"

\* synchronous code of the frame calls load
FrameLoad(key) ==
  /\ loop.phase = "frame"
  /\ Len(loads) < limit
  /\ Store(load(Loader, key))
  /\ loop' = issueLoad(loop, key, "frame")
  /\ UNCHANGED <<options, many, edits, faults, limit, call, made, tiny>>

\* synchronous code of the frame queues a promise continuation
FrameThen ==
  /\ loop.phase = "frame"
  /\ loop.jobs < MaxJobs
  /\ loop' = [loop EXCEPT !.microQ = Append(@, [job |-> "then", batch |-> 0]),
                          !.jobs = @ + 1]
  /\ UNCHANGED <<options, _batch, batches, _cacheMap, promises, hits, loads, many,
                 tickLog, edits, faults, limit, call, made, tiny>>

\* synchronous code of the frame sets a timer
FrameSetTimeout ==
  /\ loop.phase = "frame"
  /\ loop.jobs < MaxJobs
  /\ loop' = [loop EXCEPT !.macroQ = @ + 1, !.jobs = @ + 1]
  /\ UNCHANGED <<options, _batch, batches, _cacheMap, promises, hits, loads, many,
                 tickLog, edits, faults, limit, call, made, tiny>>

\* the synchronous code of the frame ends
FrameEnd ==
  /\ loop.phase = "frame"
  /\ loop' = [loop EXCEPT !.phase = "jobs"]
  /\ UNCHANGED <<options, _batch, batches, _cacheMap, promises, hits, loads, many,
                 tickLog, edits, faults, limit, call, made, tiny>>

\* the head of the process.nextTick queue runs: the dispatch of a batch
RunTick ==
  /\ loop.phase = "jobs"
  /\ ~loop.draining
  /\ loop.tickQ # <<>>
  /\ Store(dispatchBatch([Loader EXCEPT !.tickLog = <<>>], Head(loop.tickQ), "promise"))
  /\ loop' = [loop EXCEPT !.tickQ = Tail(@)]
  /\ UNCHANGED <<options, many, edits, faults, limit, call, made, tiny>>

\* the head of the promise job queue runs: the job of enqueuePostPromiseJob
RunPostPromiseJob ==
  /\ loop.phase = "jobs"
  /\ loop.draining \/ loop.tickQ = <<>>
  /\ loop.microQ # <<>>
  /\ Head(loop.microQ).job = "nextTick"
  /\ loop' = enqueueNextTick(afterJob(loop), Head(loop.microQ).batch)
  /\ UNCHANGED <<options, _batch, batches, _cacheMap, promises, hits, loads, many,
                 tickLog, edits, faults, limit, call, made, tiny>>

\* the head of the promise job queue runs: a continuation that calls load
\* and may queue a continuation in turn
RunThen(key, again) ==
  /\ loop.phase = "jobs"
  /\ loop.draining \/ loop.tickQ = <<>>
  /\ loop.microQ # <<>>
  /\ Head(loop.microQ).job = "then"
  /\ Len(loads) < limit
  /\ again => loop.jobs < MaxJobs
  /\ Store(load(Loader, key))
  /\ LET lp == issueLoad(afterJob(loop), key, "then")
     IN loop' = IF again
                THEN [lp EXCEPT !.microQ = Append(@, [job |-> "then", batch |-> 0]),
                                !.jobs = @ + 1, !.draining = TRUE]
                ELSE [lp EXCEPT !.draining = lp.microQ # <<>>]
  /\ UNCHANGED <<options, many, edits, faults, limit, call, made, tiny>>

\* both queues are empty: control returns to the event loop
JobsEnd ==
  /\ loop.phase = "jobs"
  /\ loop.tickQ = <<>> /\ loop.microQ = <<>>
  /\ loop' = [loop EXCEPT !.phase = "idle"]
  /\ UNCHANGED <<options, _batch, batches, _cacheMap, promises, hits, loads, many,
                 tickLog, edits, faults, limit, call, made, tiny>>

\* a timer callback runs: the next frame
RunTimer ==
  /\ loop.phase = "idle"
  /\ loop.macroQ > 0
  /\ loop' = [loop EXCEPT !.phase = "frame", !.macroQ = @ - 1, !.frame = @ + 1]
  /\ UNCHANGED <<options, _batch, batches, _cacheMap, promises, hits, loads, many,
                 tickLog, edits, faults, limit, call, made, tiny>>

NextTick ==
  \/ \E key \in Keys : FrameLoad(key)
  \/ FrameThen
  \/ FrameSetTimeout
  \/ FrameEnd
  \/ RunTick
  \/ RunPostPromiseJob
  \/ \E key \in Keys, again \in BOOLEAN : RunThen(key, again)
  \/ JobsEnd
  \/ RunTimer

SpecTick == InitTick /\ [][NextTick]_vars

\* ------------------------------------------------------- reading the state
\* the outcome of the promise load returned on a cache hit: the notification
\* resolves it with the cached promise, whose outcome it takes
hitOutcome(h) ==
  IF hits[h].run THEN promises[hits[h].promise] ELSE Pending

\* the outcome of the promise the i-th load call returned
Outcome(i) ==
  IF loads[i].hit THEN hitOutcome(loads[i].ref) ELSE promises[loads[i].ref]

Settled(o) == o.st # "pending"

Scheduled == { b \in DOMAIN batches : batches[b].phase = "scheduled" }

\* the batches whose keys went to the batch function
Called ==
  { b \in DOMAIN batches :
      batches[b].phase \in {"inflight", "threw", "catching", "done", "failed"} }

NoDuplicates(seq) ==
  \A i, j \in DOMAIN seq : i # j => seq[i] # seq[j]

\* the keys of the tick's loads that were not cache hits, in call order
RECURSIVE Misses(_)
Misses(log) ==
  IF log = <<>> THEN <<>>
  ELSE IF log[1].op = "load" /\ ~log[1].hit
  THEN <<log[1].key>> \o Misses(Tail(log))
  ELSE Misses(Tail(log))

\* no clear, clearAll or prime call in the log
NoEdit(log) == \A i \in DOMAIN log : log[i].op # "edit"

DefaultScheduler == options.batchScheduleFn = "enqueuePostPromiseJob"

\* ------------------------------------------------------------------ C1
\* C1: caching on, default scheduler, no maximum batch size: the loads of one
\* tick go to one batch, and the keys of that batch (the keys the batch
\* function receives) are the keys of the loads that were not cache hits,
\* each once, in call order.
C1_OneCallPerTick ==
  (options.cache /\ DefaultScheduler /\ _maxBatchSize = Infinity /\ NoEdit(tickLog)) =>
    /\ Cardinality(Scheduled) <= 1
    /\ Scheduled = {} => Misses(tickLog) = <<>>
    /\ \A b \in Scheduled :
          /\ batches[b].keys = Misses(tickLog)
          /\ NoDuplicates(batches[b].keys)
    /\ \A b \in Called : batches[b].sent = batches[b].keys

\* ------------------------------------------------------------------ C2
\* the promise a logged load call is bound to
Handle(i) == IF loads[i].hit THEN hits[loads[i].ref].promise ELSE loads[i].ref

\* C2: caching on: of two load calls of one key with nothing but load calls
\* between them, the second is a cache hit on the promise of the first, so it
\* adds no key and no callback to the batch; and load calls bound to one
\* promise settle alike.
C2_SecondLoadIsHit ==
  options.cache =>
    /\ \A i, j \in DOMAIN tickLog :
         (/\ i < j
          /\ tickLog[i].key = tickLog[j].key
          /\ \A k \in i..j : tickLog[k].op = "load")
         => /\ tickLog[j].hit
            /\ tickLog[j].promise = tickLog[i].promise
    /\ \A i, j \in DOMAIN loads :
         (Handle(i) = Handle(j) /\ Settled(Outcome(i)) /\ Settled(Outcome(j)))
         => Outcome(i) = Outcome(j)
    /\ \A b \in DOMAIN batches :
         Len(batches[b].keys) = Len(batches[b].callbacks)

\* two loads of one key before any dispatch: one key in the batch
C2_Witness ==
  /\ options.cache
  /\ Len(tickLog) = 2 /\ Len(loads) = 2
  /\ tickLog[1].op = "load" /\ tickLog[2].op = "load"
  /\ tickLog[1].key = tickLog[2].key
  /\ tickLog[2].hit
  /\ Len(batches[1].keys) = 1

\* ------------------------------------------------------------------ C3
\* the outcome the claim gives a waiter for one element of the response
Positional(value) == IF isError(value) THEN Rejected(value) ELSE Resolved(value)

\* C3: a batch whose response is a sequence as long as its keys: once the
\* response is handled, the waiter at position i is rejected with response[i]
\* when that is an Error and resolved with response[i] otherwise.
C3_PositionalSettlement ==
  \A b \in DOMAIN batches :
    (batches[b].values.arrayLike /\ batches[b].phase \in {"done", "failed"})
    => \A i \in DOMAIN batches[b].callbacks :
         promises[batches[b].callbacks[i]] = Positional(batches[b].values.elems[i])

\* ------------------------------------------------------------------ C4
\* the outcome of the promise the m-th loadMany call returned
loadManyResult(m) ==
  promiseAll([i \in 1..many[m].n |-> catchError(Outcome(many[m].first + i - 1))])

\* C4: loadMany never rejects; once every load it made is settled it is
\* resolved with one element per key, the value or the failure of that load,
\* in the order of the keys.
C4_LoadManyNeverRejects ==
  \A m \in DOMAIN many :
    LET r == loadManyResult(m)
        at(i) == Outcome(many[m].first + i - 1)
    IN /\ r.st # "rejected"
       /\ r.st = "resolved" => \A i \in 1..many[m].n : Settled(at(i))
       /\ (\A i \in 1..many[m].n : Settled(at(i)))
          => /\ r.st = "resolved"
             /\ Len(r.vals) = many[m].n
             /\ \A i \in 1..many[m].n : r.vals[i] = at(i).val

\* a loadMany resolved with a value and a failure
C4_Witness ==
  \E m \in DOMAIN many :
    /\ loadManyResult(m).st = "resolved"
    /\ many[m].n = 2
    /\ Outcome(many[m].first).st = "resolved"
    /\ Outcome(many[m].first + 1).st = "rejected"

\* ------------------------------------------------------------------ C5
\* batch b fails in this step with the shape error
ShapeFailure(b) ==
  /\ batches[b].phase # "failed"
  /\ batches'[b].phase = "failed"
  /\ batches'[b].error = "TypeError"

\* C5: when a batch fails with the shape error (no promise returned, response
\* not array-like or of another length), every callback of the batch is
\* rejected with it, the cache entry of every key of the batch is gone, and a
\* load of such a key right then is a miss that puts the key into another,
\* not yet dispatched batch.
C5_ShapeError ==
  [][\A b \in DOMAIN batches :
       ShapeFailure(b) =>
         \A i \in DOMAIN batches[b].keys :
           LET key == batches[b].keys[i]
               L2 == load(Loader', key)
               to == L2.batches[L2.batch]
           IN /\ promises'[batches[b].callbacks[i]] = Rejected("TypeError")
              /\ options.cache => _cacheMap'[_cacheKeyFn(key)] = 0
              /\ ~L2.loads[Len(L2.loads)].hit
              /\ L2.batch # b
              /\ to.phase = "scheduled"
              /\ to.keys[Len(to.keys)] = key]_vars

\* a batch failed with the shape error and a key of it was loaded again
C5_Witness ==
  \E b, c \in DOMAIN batches :
    /\ b < c
    /\ batches[b].phase = "failed" /\ batches[b].error = "TypeError"
    /\ options.cache
    /\ \E i \in DOMAIN batches[b].keys, j \in DOMAIN batches[c].keys :
         batches[b].keys[i] = batches[c].keys[j]

\* ------------------------------------------------------------------ C6
\* C6: when the call of the batch function fails (it throws, or the promise it
\* returned is rejected), every callback of the batch is rejected and no
\* promise of the batch stays in the cache.
C6_BackendFailure ==
  \A b \in DOMAIN batches :
    (\/ batches[b].phase = "threw"
     \/ batches[b].phase = "failed" /\ batches[b].error = "backendError")
    => \A i \in DOMAIN batches[b].callbacks :
         /\ promises[batches[b].callbacks[i]].st = "rejected"
         /\ \A c \in CacheKeys : _cacheMap[c] # batches[b].callbacks[i]

\* ------------------------------------------------------------------ C7
\* C7: default scheduler: once the dispatch callback of a batch has run and
\* the call of the batch function is over, whatever its end, every callback
\* of the batch is settled.
C7_EveryWaiterSettled ==
  DefaultScheduler =>
    \A b \in DOMAIN batches :
      batches[b].phase \in {"noCall", "threw", "done", "failed"}
      => \A i \in DOMAIN batches[b].callbacks :
           Settled(promises[batches[b].callbacks[i]])

\* ------------------------------------------------------------------ C8
\* C8: whatever the scheduler, no step, and so no load call made after the
\* dispatch, appends a key, a callback or a cache-hit notification to a batch
\* that was marked dispatched before the step; a load call made when the
\* current batch is dispatched leaves every batch as it was and registers on
\* a batch it creates.
C8_NoLaterLoadAppends ==
  [][/\ \A b \in DOMAIN batches :
          batches[b].hasDispatched =>
            /\ batches'[b].keys = batches[b].keys
            /\ batches'[b].callbacks = batches[b].callbacks
            /\ batches'[b].cacheHits = batches[b].cacheHits
     /\ (_batch # 0 /\ batches[_batch].hasDispatched /\ Len(loads') = Len(loads) + 1)
        => /\ Len(batches') = Len(batches) + 1
           /\ \A b \in DOMAIN batches :
                /\ batches'[b].keys = batches[b].keys
                /\ batches'[b].cacheHits = batches[b].cacheHits
           /\ Len(batches'[Len(batches')].keys)
                + Len(batches'[Len(batches')].cacheHits) = 1]_vars

\* a load made after a dispatch, on another batch
C8_Witness ==
  \E b, c \in DOMAIN batches :
    /\ b < c
    /\ batches[b].hasDispatched
    /\ Len(batches[b].keys) > 0
    /\ ~batches[c].hasDispatched
    /\ Len(batches[c].keys) + Len(batches[c].cacheHits) > 0

\* ------------------------------------------------------------------ C9
\* the maximum batch size the options configure
ConfiguredMax ==
  IF ~options.batch THEN 1
  ELSE IF options.maxBatchSize = Undefined THEN Infinity
  ELSE options.maxBatchSize

RECURSIVE ScheduledEntries(_)
ScheduledEntries(b) ==
  IF b = 0 THEN 0
  ELSE ScheduledEntries(b - 1) +
       (IF b \in Scheduled
        THEN Len(batches[b].keys) + Len(batches[b].cacheHits) ELSE 0)

LoadsIn(log) == Cardinality({ i \in DOMAIN log : log[i].op = "load" })

Ceil(count, m) == (count + m - 1) \div m

\* the load calls of the tick are all that the scheduled batches hold, and
\* there are more than the maximum batch size
FullTick ==
  /\ DefaultScheduler
  /\ ConfiguredMax < Infinity
  /\ NoEdit(tickLog)
  /\ LoadsIn(tickLog) > ConfiguredMax
  /\ ScheduledEntries(Len(batches)) = LoadsIn(tickLog)

\* the calls of the batch function the tick leads to
CallsToCome == { b \in Scheduled : Len(batches[b].keys) > 0 }

Primed(p) ==
  \A b \in DOMAIN batches : \A i \in DOMAIN batches[b].callbacks :
    batches[b].callbacks[i] # p

\* the entry the last load call logged
lastLoad(L) == L.loads[Len(L.loads)]

\* C11: in every state, for every key: prime on a cached key changes
\* nothing; prime(key, value) on a key not cached followed by load(key) gives
\* a cache hit on a promise resolved with value, and no batch gains a key.
C11_PrimeThenLoad ==
  options.cache =>
    \A key \in Keys :
      LET L1 == prime(Loader, key, "pv")
          L2 == load(L1, key)
          p == Len(promises) + 1
      IN IF _cacheMap[_cacheKeyFn(key)] # 0
         THEN L1 = Loader
         ELSE /\ lastLoad(L2).hit
              /\ L2.hits[lastLoad(L2).ref].promise = p
              /\ L2.promises[p] = Resolved("pv")
              /\ \A b \in DOMAIN L2.batches :
                   L2.batches[b].keys =
                     IF b \in DOMAIN batches THEN batches[b].keys ELSE <<>>

\* a load of a primed key, resolved with the primed value, and no batch has
\* a key
C11_Witness ==
  /\ \E i \in DOMAIN loads :
       /\ loads[i].hit
       /\ Primed(Handle(i))
       /\ Outcome(i) = Resolved("pv")
  /\ \A b \in DOMAIN batches : batches[b].keys = <<>>

\* ----------------------------------------------------------------- C12
\* the notifications of batch b that resolveCacheHits has run
HitsAreRun(b) ==
  \/ batches[b].phase \in {"noCall", "done", "failed"}
  \/ batches[b].phase = "catching" /\ batches[b].values.arrayLike

\* C12 as stated: once the flush of its batch has run, whatever the batch
\* function does with the keys of the batch, a load of a key primed with a
\* failure is settled with that failure.
C12_PrimedFailureAtOnce ==
  DefaultScheduler =>
    \A b \in DOMAIN batches : \A j \in DOMAIN batches[b].cacheHits :
      LET h == batches[b].cacheHits[j]
      IN (/\ batches[b].hasDispatched
          /\ batches[b].phase # "threw"
          /\ promises[hits[h].promise] = Rejected("pe"))
         => hitOutcome(h) = Rejected("pe")

\* C12 with the condition the code has: a load that is a cache hit, the load
\* of a key primed with a failure included, stays pending until the
\* notifications of its batch are run (at the flush of a batch with no keys,
\* else when the response of the batch is handled or its dispatch fails), and
\* then has the outcome of the cached promise.
C12_HitWaitsForItsBatch ==
  \A b \in DOMAIN batches : \A j \in DOMAIN batches[b].cacheHits :
    LET h == batches[b].cacheHits[j]
    IN /\ hits[h].run <=> (j <= batches[b].hitsRun /\ HitsAreRun(b))
       /\ hitOutcome(h) = IF hits[h].run THEN promises[hits[h].promise] ELSE Pending

\* a load of a key primed with a failure, pending while the call of its batch
\* is in flight
C12_Witness ==
  \E b \in DOMAIN batches : \E j \in DOMAIN batches[b].cacheHits :
    LET h == batches[b].cacheHits[j]
    IN /\ batches[b].phase = "inflight"
       /\ promises[hits[h].promise] = Rejected("pe")
       /\ hitOutcome(h) = Pending

\* ----------------------------------------------------------------- C13
\* C13: default scheduler: once the call of the batch function is over,
\* whatever its end, every notification queued on the batch has been run.
C13_CacheHitsAlwaysRun ==
  DefaultScheduler =>
    \A b \in DOMAIN batches :
      batches[b].phase \in {"noCall", "threw", "done", "failed"}
      => \A j \in DOMAIN batches[b].cacheHits : hits[batches[b].cacheHits[j]].run

\* ----------------------------------------------------------------- C14
\* L2 is the loader after load(key): the call registered on a batch that
\* will be dispatched
Registered(L2, key) ==
  LET to == L2.batches[L2.batch]
      e == lastLoad(L2)
  IN /\ IF e.hit
        THEN to.cacheHits[Len(to.cacheHits)] = e.ref
        ELSE to.keys[Len(to.keys)] = key
     /\ DefaultScheduler => to.phase = "scheduled"

SomeBatchFailed ==
  \E b \in DOMAIN batches : batches[b].phase \in {"failed", "threw"}

\* C14: whatever happened to other batches, the callbacks of a batch not yet
\* answered are pending and those of a batch whose response was handled have
\* the outcome of their position; after a batch failed, load registers on a
\* batch as before.
C14_FailureIsolated ==
  /\ \A c \in DOMAIN batches :
       /\ batches[c].phase \in {"scheduled", "inflight"}
          => \A i \in DOMAIN batches[c].callbacks :
               promises[batches[c].callbacks[i]] = Pending
       /\ batches[c].phase = "done"
          => \A i \in DOMAIN batches[c].callbacks :
               promises[batches[c].callbacks[i]] = Positional(batches[c].values.elems[i])
  /\ SomeBatchFailed => \A key \in Keys : Registered(load(Loader, key), key)

\* a batch failed and a later one was answered
C14_Witness ==
  \E b, c \in DOMAIN batches :
    /\ b < c
    /\ batches[b].phase = "failed"
    /\ batches[c].phase = "done"
    /\ Len(batches[c].keys) > 0

\* ----------------------------------------------------------------- C15
\* load(key) is a miss that puts key into a batch to be dispatched
Reloads(L, key) ==
  LET L2 == load(L, key)
  IN ~lastLoad(L2).hit /\ Registered(L2, key)

\* C15: caching on: in every state, for every key: clear(key) removes the
\* entry of the key and nothing else, a second clear(key) changes nothing,
\* clearAll removes every entry and nothing else, and after either load(key)
\* of a key that was cached is a miss that puts the key into a batch.
C15_ClearForcesReload ==
  options.cache =>
    LET LA == clearAll(Loader)
    IN /\ LA.cacheMap = [c \in CacheKeys |-> 0]
       /\ [LA EXCEPT !.cacheMap = _cacheMap] = Loader
       /\ \A key \in Keys :
            LET L1 == clear(Loader, key)
            IN /\ L1.cacheMap = [_cacheMap EXCEPT ![_cacheKeyFn(key)] = 0]
               /\ [L1 EXCEPT !.cacheMap = _cacheMap] = Loader
               /\ clear(L1, key) = L1
               /\ _cacheMap[_cacheKeyFn(key)] # 0
                  => Reloads(L1, key) /\ Reloads(LA, key)

\* a key loaded and cached, cleared, and loaded again as a miss
C15_Witness ==
  /\ options.cache
  /\ edits = 1
  /\ ~SomeBatchFailed
  /\ \E i, j \in DOMAIN loads :
       /\ i < j
       /\ loads[i].key = loads[j].key
       /\ ~loads[i].hit /\ ~loads[j].hit

\* ----------------------------------------------------------------- C16
\* the callbacks of batches 1..b
RECURSIVE Callbacks(_)
Callbacks(b) ==
  IF b = 0 THEN 0 ELSE Callbacks(b - 1) + Len(batches[b].callbacks)

\* the number of promises prime created: those load did not create
PrimedPromises == Len(promises) - Callbacks(Len(batches))

\* the keys of cache key c that load put into batches 1..b
RECURSIVE Missed(_, _)
Missed(c, b) ==
  IF b = 0 THEN 0
  ELSE Missed(c, b - 1)
       + Cardinality({ i \in DOMAIN batches[b].keys :
                         _cacheKeyFn(batches[b].keys[i]) = c })

\* the number of promises stored under cache key c so far: one by every load
\* that missed, one by every prime that found no entry
Inserted(c) ==
  Missed(c, Len(batches))
    + (IF c = _cacheKeyFn("a") THEN PrimedPromises ELSE 0)

\* the clear and clearAll calls that removed an entry
Cleared == edits - PrimedPromises

\* the batches with a key of cache key c that failedDispatch handled
Evictions(c) ==
  Cardinality({ b \in DOMAIN batches :
                  /\ batches[b].phase = "failed"
                  /\ \E i \in DOMAIN batches[b].keys :
                       _cacheKeyFn(batches[b].keys[i]) = c })

\* C16 as stated: caching on: the cache holds at most one promise per cache
\* key, and a promise is stored under a cache key once, and once more only
\* after each clear or clearAll that removed its entry.
C16_InsertedOnceUnlessCleared ==
  options.cache =>
    /\ _cacheMap \in [CacheKeys -> 0..Len(promises)]
    /\ \A c \in CacheKeys : Inserted(c) <= 1 + Cleared

\* C16 with the removals the code makes: once more also after each
\* failedDispatch of a batch holding the key, which removes its entry as
\* clear does.
C16_InsertedOnceUnlessRemoved ==
  options.cache =>
    /\ _cacheMap \in [CacheKeys -> 0..Len(promises)]
    /\ \A c \in CacheKeys : Inserted(c) <= 1 + Cleared + Evictions(c)

\* a key stored a second time after the failure of its batch
C16_Witness ==
  /\ options.cache
  /\ \E c \in CacheKeys : Inserted(c) = 2 /\ Cleared = 0 /\ Evictions(c) = 1

\* ----------------------------------------------------------------- C17
\* C17: default scheduler: the load calls of a frame and of the promise
\* continuations that follow it, those queued in turn included, are all on one
\* batch; when control is back at the event loop no batch waits for its
\* dispatch, and a batch that waits while a frame runs was opened by that
\* frame: the dispatch ran before the next timer callback.
C17_FlushAfterContinuations ==
  /\ \A i, j \in DOMAIN loop.where :
       loop.where[i].frame = loop.where[j].frame
       => loop.where[i].batch = loop.where[j].batch
  /\ loop.phase = "idle" => Scheduled = {}
  /\ \A b \in Scheduled :
       \E i \in DOMAIN loop.where :
         loop.where[i].batch = b /\ loop.where[i].frame = loop.frame
  /\ \A b \in DOMAIN batches :
       batches[b].hasDispatched => batches[b].sent = batches[b].keys

\* a frame loaded, its continuation and the continuation of that loaded on
\* the same batch, the batch was dispatched and a timer callback runs
C17_Witness ==
  /\ Len(loop.where) = 3
  /\ loop.where[1].by = "frame"
  /\ loop.where[2].by = "then"
  /\ loop.where[3].by = "then"
  /\ loop.where[3].batch = 1
  /\ batches[1].hasDispatched
  /\ loop.frame = 2

\* ----------------------------------------------------------------- C18
Immediate == options.batchScheduleFn = "immediate"

\* C18: with a scheduler that runs the callback at once, every key a load
\* puts into a batch has been sent to the batch function, one key a call.
C18_ImmediateSendsEach ==
  Immediate =>
    \A b \in DOMAIN batches :
      /\ batches[b].sent = batches[b].keys
      /\ Len(batches[b].keys) <= 1

\* ----------------------------------------------------------------- C19
\* C19: a batch with no keys when its dispatch ran: the batch function was
\* not called, and every notification queued on it by then has been run.
C19_EmptyBatchNoCall ==
  \A b \in DOMAIN batches :
    (batches[b].hasDispatched /\ batches[b].sent = <<>>)
    => /\ batches[b].phase = "noCall"
       /\ b \notin Called
       /\ \A j \in 1..batches[b].hitsRun : hits[batches[b].cacheHits[j]].run

\* a batch of cache hits only, dispatched
C19_Witness ==
  \E b \in DOMAIN batches :
    /\ batches[b].phase = "noCall"
    /\ batches[b].keys = <<>>
    /\ batches[b].hitsRun > 0
    /\ hits[batches[b].cacheHits[1]].run

\* ----------------------------------------------------------------- C20
\* the keys of batches b.. in order
RECURSIVE KeysFrom(_)
KeysFrom(b) ==
  IF b > Len(batches) THEN <<>> ELSE batches[b].keys \o KeysFrom(b + 1)

\* C20: caching off: no entry is ever in the cache and no load is a cache
\* hit; the keys of the batches are the keys of the load calls, in call order
\* and with repetitions; the batch function receives the keys of the batch;
\* prime, clear and clearAll change nothing.
C20_NoCacheNoDedup ==
  ~options.cache =>
    /\ _cacheMap = [c \in CacheKeys |-> 0]
    /\ hits = <<>>
    /\ KeysFrom(1) = [i \in DOMAIN loads |-> loads[i].key]
    /\ \A b \in DOMAIN batches :
         /\ Len(batches[b].callbacks) = Len(batches[b].keys)
         /\ batches[b].cacheHits = <<>>
         /\ b \in Called => batches[b].sent = batches[b].keys
    /\ \A key \in Keys :
         /\ clear(Loader, key) = Loader
         /\ clearAll(Loader) = Loader
         /\ \A value \in {"pv", "pe"} : prime(Loader, key, value) = Loader

\* caching off: the batch function called with the same key twice
C20_Witness ==
  /\ ~options.cache
  /\ \E b \in Called : batches[b].sent = <<"b", "b">>

\* ----------------------------------------------------------------- C21
\* C21: a load call with a null or undefined key, and a loadMany call with
\* keys that are not an array-like sequence or that hold a null or undefined
\* key, throw from the call and return no future.
C21_UsageErrorsThrow ==
  (call.op # "none" /\ call.usage) => (call.threw /\ ~call.returned)

\* loadMany threw on keys whose first key it had loaded
C21_Witness ==
  /\ call.op = "loadMany"
  /\ call.usage
  /\ call.threw
  /\ ~call.same

\* ----------------------------------------------------------------- C29
\* C29: a load or loadMany call that throws a usage error leaves the loader
\* as it found it: no batch opened, no dispatch scheduled, no key or callback
\* added, no cache entry inserted.
C29_ThrowingCallChangesNothing ==
  call.threw => call.same

\* ----------------------------------------------------------------- C22
\* an invalid configuration value: a batch function that is no function, a
\* maximum batch size that is zero or negative, a scheduler that is no
\* function, a cache store without one of get, set, delete, clear
Invalid(batchLoadFn, o) ==
  \/ batchLoadFn # "function"
  \/ (o.maxBatchSize \in Numbers /\ o.maxBatchSize <= 0)
  \/ o.batchScheduleFn = "notFunction"
  \/ o.cacheMap \in {"noGet", "noSet", "noDelete", "noClear"}

\* C22: construction with an invalid configuration value throws, whatever
\* the other options are; no loader is made from an invalid configuration.
C22_InvalidConfigurationThrows ==
  made.step = "made" => ~Invalid(made.batchLoadFn, made.options)

\* ----------------------------------------------------------------- C23
\* C23: a TinyDataLoader no call was made on has no task, no cache hit and no
\* cache entry, holds the batch loader it was constructed with, has queued
\* no run of executeTaskQueue and has made no call of the batch loader.
C23_NewTinyIsEmpty ==
  (tiny.step = "made" /\ tiny.loads = <<>>)
  => /\ tiny.tasks = <<>>
     /\ tiny.cacheHits = <<>>
     /\ \A k \in Keys : tiny._cacheMap[k] = 0
     /\ tiny._batchLoader = made.batchLoader
     /\ tiny.jobs = 0
     /\ tiny.calls = <<>>

\* a TinyDataLoader constructed with a batch loader that answers an Error
C23_Witness ==
  /\ tiny.step = "made"
  /\ tiny.loads = <<>>
  /\ made.step = "tiny"
  /\ made.batchLoader["b"] = "e1"

\* ----------------------------------------------------------------- C24
\* load finds no batch open, or the current batch dispatched, or the current
\* batch holding as many keys as the maximum batch size
NoRoomForKey ==
  \/ _batch = 0
  \/ batches[_batch].hasDispatched
  \/ Len(batches[_batch].keys) >= _maxBatchSize

\* getCurrentBatch, called by load in this state, opens a batch
Opens == Len(getCurrentBatch(Loader).batches) > Len(batches)

\* getCurrentBatch, called by load in this state, returns the current batch
\* and changes nothing
Reuses == getCurrentBatch(Loader) = Loader

\* the batch getCurrentBatch opens is the loader's current batch and was
\* handed to the scheduler
OpensScheduled ==
  LET L2 == getCurrentBatch(Loader)
  IN /\ Len(L2.batches) = Len(batches) + 1
     /\ L2.batch = Len(L2.batches)
     /\ L2.batches[L2.batch].keys = <<>>
     /\ IF DefaultScheduler THEN L2.batches[L2.batch].phase = "scheduled"
        ELSE L2.batches[L2.batch].hasDispatched

\* C24: load opens a batch only when no batch is open, the current batch is
\* dispatched or its keys have reached the maximum batch size; in every
\* other state it reuses the current batch and schedules nothing.
C24_OpensOnThreeConditions ==
  IF NoRoomForKey THEN Opens /\ OpensScheduled ELSE Reuses

\* C24 as amended: a fourth condition opens a batch, the cache hits of the
\* current batch having reached the maximum batch size.
C24_OpensOnFourConditions ==
  IF NoRoomForKey \/ Len(batches[_batch].cacheHits) >= _maxBatchSize
  THEN Opens /\ OpensScheduled
  ELSE Reuses

\* a second batch was opened while the first, not yet dispatched, held no
\* key and as many cache hits as the maximum batch size
C24_Witness ==
  /\ Len(batches) = 2
  /\ ~batches[1].hasDispatched
  /\ batches[1].keys = <<>>
  /\ Len(batches[1].cacheHits) = _maxBatchSize

\* ----------------------------------------------------------------- C25
\* the keys of the load calls that were not cache hits, in call order
MissKeys ==
  LET M == SelectSeq(loads, LAMBDA e : ~e.hit)
  IN [i \in DOMAIN M |-> M[i].key]

\* C25: with a cache key function under which different keys share a cache
\* key, the batches hold and the batch function receives the keys of the
\* load calls as given, in call order, never cache keys; of two load calls
\* of a tick with nothing but load calls between them the second is a cache
\* hit on the promise of the first and adds no key, and load calls bound to
\* one promise settle alike.
C25_CacheKeyOnlyAddressesCache ==
  options.cacheKeyFn = "sameKey" =>
    /\ KeysFrom(1) = MissKeys
    /\ \A b \in DOMAIN batches :
         /\ \A i \in DOMAIN batches[b].keys : batches[b].keys[i] \in Keys
         /\ b \in Called => batches[b].sent = batches[b].keys
    /\ \A i, j \in DOMAIN tickLog :
         (i < j /\ \A k \in i..j : tickLog[k].op = "load")
         => /\ tickLog[j].hit
            /\ tickLog[j].promise = tickLog[i].promise
    /\ \A i, j \in DOMAIN loads :
         (Handle(i) = Handle(j) /\ Settled(Outcome(i)) /\ Settled(Outcome(j)))
         => Outcome(i) = Outcome(j)

\* load('a') then load('b') in one tick: 'b' was a cache hit, the batch
\* function was called with 'a' alone and both calls resolved with its value
C25_Witness ==
  /\ options.cacheKeyFn = "sameKey"
  /\ Len(loads) = 2
  /\ loads[1].key = "a" /\ ~loads[1].hit
  /\ loads[2].key = "b" /\ loads[2].hit
  /\ batches[1].sent = <<"a">>
  /\ Outcome(1) = Resolved("v1")
  /\ Outcome(2) = Resolved("v1")

\* ----------------------------------------------------------------- C26
\* the outcome of the promise the i-th load call of the TinyDataLoader returned
tinyOutcome(i) ==
  LET e == tiny.loads[i]
  IN IF e.hit
     THEN IF tiny.hits[e.ref].run THEN tiny.promises[tiny.hits[e.ref].promise]
          ELSE Pending
     ELSE tiny.promises[e.ref]

\* the outcome of the promise the m-th loadMany call of the TinyDataLoader
\* returned
tinyLoadManyResult(m) ==
  promiseAll([i \in 1..tiny.many[m].n |-> tinyOutcome(tiny.many[m].first + i - 1)])

\* the key lists the DataLoader's batch function was called with, from batch b
RECURSIVE LoaderCalls(_)
LoaderCalls(b) ==
  IF b > Len(batches) THEN <<>>
  ELSE (IF b \in Called THEN <<batches[b].sent>> ELSE <<>>) \o LoaderCalls(b + 1)

\* the key lists the TinyDataLoader's batch loader was called with
TinyCallKeys == [c \in DOMAIN tiny.calls |-> tiny.calls[c].keys]

\* the jobs of the tick have run on both sides
Flushed == tiny.jobs = 0 /\ Scheduled = {}

\* C26: given the same load and loadMany calls over the same ticks and the
\* same batch loader, TinyDataLoader and a DataLoader with default options
\* make the same calls of the batch loader, and every future returned
\* settles to the same outcome in both.
C26_TinyIsInterchangeable ==
  tiny.step = "made" =>
    /\ Flushed => TinyCallKeys = LoaderCalls(1)
    /\ \A i \in DOMAIN loads :
         (Settled(tinyOutcome(i)) /\ Settled(Outcome(i)))
         => tinyOutcome(i) = Outcome(i)
    /\ \A m \in DOMAIN many :
         (tinyLoadManyResult(m).st # "pending" /\ loadManyResult(m).st # "pending")
         => tinyLoadManyResult(m) = loadManyResult(m)

\* ----------------------------------------------------------------- C30
\* C30: TinyDataLoader never calls the batch loader with no keys and queues
\* at most one run of executeTaskQueue per tick.
C30_TinyNeverFlushesEmpty ==
  tiny.step = "made" =>
    /\ \A c \in DOMAIN tiny.calls : tiny.calls[c].keys # <<>>
    /\ tiny.jobs <= 1

\* ------------------------------------------------------------------- C27
\* the then callback of batch b ran on a response of the right shape
WellFormed(b) ==
  /\ batches[b].phase \in {"done", "catching", "failed"}
  /\ batches[b].values.arrayLike
  /\ Len(batches[b].values.elems) = Len(batches[b].keys)

\* the key at position i of batch b is still cached under the promise the
\* batch made for it, and that promise is rejected with the Error returned
StaysCached(b, i) ==
  /\ _cacheMap[_cacheKeyFn(batches[b].keys[i])] = batches[b].callbacks[i]
  /\ promises[batches[b].callbacks[i]] = Rejected(batches[b].values.elems[i])

\* C27: with caching enabled and no clear, clearAll or prime call, a key
\* whose position in a well-formed response held an Error stays cached under
\* its rejected promise, so that a later load of it is a cache hit rejecting
\* with that Error and adds no key to any batch.
C27_ItemFailureStaysCached ==
  (getValidCacheMap(options) /\ edits = 0) =>
    \A b \in DOMAIN batches :
      WellFormed(b) =>
        \A i \in DOMAIN batches[b].keys :
          isError(batches[b].values.elems[i]) => StaysCached(b, i)

\* ------------------------------------------------------------------- C28
\* this step is the dispatch-level failure of batch b, whose backend call
\* was in flight
Fails(b) ==
  /\ batches[b].phase \in {"inflight", "catching"}
  /\ batches'[b].phase = "failed"

\* the cache entry of cache key c holds a promise that batch b did not create
\* and that a load stored after the last dispatch
NotOwnedBy(b, c) ==
  /\ _cacheMap[c] # 0
  /\ \A i \in DOMAIN batches[b].callbacks : batches[b].callbacks[i] # _cacheMap[c]
  /\ \E t \in DOMAIN tickLog :
       /\ tickLog[t].op = "load"
       /\ ~tickLog[t].hit
       /\ tickLog[t].promise = _cacheMap[c]

\* C28: the dispatch-level failure of a batch whose backend call is in flight
\* leaves in place every cache entry a later load stored while the call was
\* in flight: the batch evicts only entries holding promises it created.
C28_FailureEvictsOwnEntriesOnly ==
  [][\A b \in DOMAIN batches :
       Fails(b) => \A c \in CacheKeys : NotOwnedBy(b, c) => _cacheMap'[c] = _cacheMap[c]]_vars
====
